---- MODULE Spec2Model ----
(***************************************************************************)
(* Model of analysis.py: a module-level script that loads two benchmark    *)
(* CSV files with pandas and renders, for each TSP instance, one figure    *)
(* with two subplots that is saved as a PNG and closed.                    *)
(*                                                                         *)
(* The script is a straight line of statements; the model keeps it as the  *)
(* table Program (one record per statement, with its source line) and a    *)
(* program counter.  One action per library call executes the statement    *)
(* under pc against the state of the process (the two data frames, the     *)
(* pyplot figure registry) and of the file system (input CSV files,        *)
(* output PNG files).  An uncaught exception stops the run with pc left    *)
(* on the statement that raised.                                           *)
(***************************************************************************)
EXTENDS Integers, Sequences, FiniteSets, TLC

VARIABLES
    files,      \* input files: path -> [exists, header, rows]
    out,        \* output files: path -> [exists, image]
    pc,         \* index in Program of the statement to execute next
    err,        \* "None", or the name of the uncaught exception
    df,         \* instance -> data frame (df_bays29, df_brg180)
    figs,       \* pyplot's open figures: number -> figure
    active,     \* number of pyplot's current figure, 0 if none
    made,       \* number of plt.figure() calls of this run
    written,    \* paths this run has written
    prev        \* outcome of the previous run of the script, if any

vars == <<files, out, pc, err, df, figs, active, made, written, prev>>

\* Largest number of data rows of an input file.
MaxRows == 2

Range(s) == {s[i] : i \in DOMAIN s}

Max(S) == CHOOSE m \in S : \A n \in S : n <= m

Index(s, e) == CHOOSE j \in DOMAIN s : s[j] = e

---------------------------------------------------------------------------
(* Names fixed by the script. *)

Instances == {"bays29", "brg180"}

CsvPath ==
    [i \in Instances |->
        IF i = "bays29" THEN "bays29_benchmark_results.csv"
                        ELSE "brg180_benchmark_results.csv"]

PngPath ==
    [i \in Instances |->
        IF i = "bays29" THEN "bays29_benchmark.png" ELSE "brg180_benchmark.png"]

\* The five columns the script reads from each frame.
Columns ==
    <<"Run", "2-opt Distance", "Swap Distance", "2-opt Time (µs)", "Swap Time (µs)">>

\* Variant: the time columns spelled "us" instead of "µs".
PlotArgsTypo ==
    << <<"Run", "2-opt Distance">>, <<"Run", "Swap Distance">>,
       <<"Run", "2-opt Time (us)">>, <<"Run", "Swap Time (us)">> >>

\* The (x, y) column pair of each of the four plt.plot calls of a block; the
\* y column is also the label of the line.
PlotArgs ==
    << <<"Run", "2-opt Distance">>, <<"Run", "Swap Distance">>,
       <<"Run", "2-opt Time (µs)">>, <<"Run", "Swap Time (µs)">> >>

FigSize == <<14, 6>>

---------------------------------------------------------------------------
(* The script as a table of statements. *)

St(line, op, inst, x, y, k) ==
    [line |-> line, op |-> op, inst |-> inst, x |-> x, y |-> y, k |-> k]

\* One render block: lines l0 .. l0+24 of the source.
Block(inst, l0, distTitle, timeTitle) ==
    << St(l0,      "figure",       inst, "", "", 0),
       St(l0 + 3,  "subplot",      inst, "", "", 1),
       St(l0 + 4,  "plot",         inst, PlotArgs[1][1], PlotArgs[1][2], 0),
       St(l0 + 5,  "plot",         inst, PlotArgs[2][1], PlotArgs[2][2], 0),
       St(l0 + 6,  "xlabel",       inst, "Run", "", 0),
       St(l0 + 7,  "ylabel",       inst, "Distance", "", 0),
       St(l0 + 8,  "title",        inst, distTitle, "", 0),
       St(l0 + 9,  "legend",       inst, "", "", 0),
       St(l0 + 10, "grid",         inst, "", "", 0),
       St(l0 + 13, "subplot",      inst, "", "", 2),
       St(l0 + 14, "plot",         inst, PlotArgs[3][1], PlotArgs[3][2], 0),
       St(l0 + 15, "plot",         inst, PlotArgs[4][1], PlotArgs[4][2], 0),
       St(l0 + 16, "xlabel",       inst, "Run", "", 0),
       St(l0 + 17, "ylabel",       inst, "Time (µs)", "", 0),
       St(l0 + 18, "title",        inst, timeTitle, "", 0),
       St(l0 + 19, "legend",       inst, "", "", 0),
       St(l0 + 20, "grid",         inst, "", "", 0),
       St(l0 + 22, "tight_layout", inst, "", "", 0),
       St(l0 + 23, "savefig",      inst, PngPath[inst], "", 0),
       St(l0 + 24, "close",        inst, "", "", 0) >>

BlockBays29 ==
    Block("bays29", 13, "Distances for bays29 Instance", "Times for bays29 Instance")

BlockBrg180 ==
    Block("brg180", 40, "Distances for brg180 Instance", "Times for brg180 Instance")

\* Variant: a script that loads each table just before its own block.
ProgramLazyLoad ==
    << St(9, "read_csv", "bays29", CsvPath["bays29"], "", 0) >>
    \o BlockBays29
    \o << St(10, "read_csv", "brg180", CsvPath["brg180"], "", 0) >>
    \o BlockBrg180

Program ==
    << St(9,  "read_csv", "bays29", CsvPath["bays29"], "", 0),
       St(10, "read_csv", "brg180", CsvPath["brg180"], "", 0) >>
    \o BlockBays29
    \o BlockBrg180

stmt == Program[pc]

Running == err = "None" /\ pc <= Len(Program)

Terminated == ~Running

\* The exit code of a terminated process.
ExitCode == IF err = "None" THEN 0 ELSE 1

---------------------------------------------------------------------------
(* Input files. *)

Row(run, d2, ds, t2, ts) ==
    [c \in Range(Columns) |->
        IF c = Columns[1] THEN run
        ELSE IF c = Columns[2] THEN d2
        ELSE IF c = Columns[3] THEN ds
        ELSE IF c = Columns[4] THEN t2
        ELSE ts]

\* The rows benchmark files are made of.
RowSet == { Row(1, 100, 110, 50, 40), Row(2, 95, 105, 55, 42) }

Tables == UNION { [1..n -> RowSet] : n \in 0..MaxRows }

\* A CSV file holding table tbl without the columns in missing.
CsvFile(missing, tbl) ==
    LET header == SelectSeq(Columns, LAMBDA c : c \notin missing)
    IN  [exists |-> TRUE,
         header |-> header,
         rows   |-> [i \in 1..Len(tbl) |->
                        [j \in 1..Len(header) |-> tbl[i][header[j]]]]]

NoCsv == [exists |-> FALSE, header |-> <<>>, rows |-> <<>>]

MissingChoices == {{}} \cup {{c} : c \in Range(Columns)}

InputFiles ==
    {NoCsv} \cup {CsvFile(m, t) : m \in MissingChoices, t \in Tables}

NoPng == [exists |-> FALSE, image |-> <<>>]

\* An image left by something other than this script.
OldPng == [exists |-> TRUE, image |-> <<>>]

---------------------------------------------------------------------------
(* pandas. *)

\* Variant: a reader that yields an empty frame for a file that does not exist.
isfile_always(path) == TRUE

\* Whether read_csv can open the file.
isfile(path) == files[path].exists

NoFrame == [loaded |-> FALSE, columns |-> <<>>, data |-> <<>>]

\* pd.read_csv: the header gives the columns, each column holds its cell of
\* every row, in row order.
read_csv(file) ==
    [loaded  |-> TRUE,
     columns |-> file.header,
     data    |-> [c \in Range(file.header) |->
                    [i \in 1..Len(file.rows) |->
                        file.rows[i][Index(file.header, c)]]]]

\* Variant: a lookup that also fails on a column without rows.
has_column_nonempty(frame, c) ==
    c \in Range(frame.columns) /\ Len(frame.data[c]) > 0

\* df[c] raises KeyError unless c is a column of the frame.
has_column(frame, c) == c \in Range(frame.columns)

\* df[c]
getitem(frame, c) == frame.data[c]

---------------------------------------------------------------------------
(* matplotlib.pyplot. *)

NewFigure == [figsize |-> FigSize, axes |-> <<>>, cur |-> 0, tight |-> FALSE]

NewAxes(pos) ==
    [pos    |-> pos,
     lines  |-> <<>>,
     xlabel |-> "",
     ylabel |-> "",
     title  |-> "",
     legend |-> [on |-> FALSE, labels |-> <<>>],
     grid   |-> FALSE]

\* plt.figure(): the new figure takes the number after the largest open one.
next_num(fs) == IF DOMAIN fs = {} THEN 1 ELSE Max(DOMAIN fs) + 1

\* plt.subplot(1, 2, k) on a figure: the axes at position k becomes current,
\* and is created if the figure has none there.
subplot(fig, k) ==
    IF \E j \in DOMAIN fig.axes : fig.axes[j].pos = k
    THEN [fig EXCEPT !.cur = CHOOSE j \in DOMAIN fig.axes : fig.axes[j].pos = k]
    ELSE [fig EXCEPT !.axes = Append(@, NewAxes(k)), !.cur = Len(fig.axes) + 1]

\* Variant: the points drawn in reverse row order.
Line2DReversed(xs, ys, label) ==
    [label |-> label,
     xy    |-> [i \in 1..Len(xs) |-> <<xs[Len(xs) + 1 - i], ys[Len(xs) + 1 - i]>>]]

\* The line plt.plot(xs, ys, label=label) draws: point i is (xs[i], ys[i]).
Line2D(xs, ys, label) ==
    [label |-> label,
     xy    |-> [i \in 1..Len(xs) |-> <<xs[i], ys[i]>>]]

plot(ax, xs, ys, label) ==
    [ax EXCEPT !.lines = Append(@, Line2D(xs, ys, label))]

\* plt.legend(): one entry per line of the axes, in drawing order.
legend(ax) ==
    [ax EXCEPT !.legend =
        [on |-> TRUE, labels |-> [i \in DOMAIN ax.lines |-> ax.lines[i].label]]]

\* plt.gca(): the current axes of the figure.
gca(fig) == fig.axes[fig.cur]

\* The figure with its current axes replaced by ax.
set_gca(fig, ax) == [fig EXCEPT !.axes[fig.cur] = ax]

\* What savefig renders of a figure: its size, layout and axes.
print_png(fig) ==
    [exists |-> TRUE,
     image  |-> << [figsize |-> fig.figsize, tight |-> fig.tight, axes |-> fig.axes] >>]

\* Variant: a save that leaves an existing file alone.
write_png_keep(o, path, fig) ==
    IF o[path].exists THEN o ELSE [o EXCEPT ![path] = print_png(fig)]

\* savefig creates or truncates the file and writes the rendering.
write_png(o, path, fig) == [o EXCEPT ![path] = print_png(fig)]

\* Variant: a close that leaves the figure in the registry.
destroy_none(fs, num) == fs

\* plt.close(): the figure leaves the registry.
destroy(fs, num) == [n \in DOMAIN fs \ {num} |-> fs[n]]

---------------------------------------------------------------------------
(* Control. *)

\* Variant: the exception is swallowed and the script goes on.
RaiseContinue(e) == pc' = pc + 1 /\ err' = err

\* An uncaught exception ends the process at the statement that raised.
Raise(e) == pc' = pc /\ err' = e

Advance == pc' = pc + 1 /\ err' = err

At(op) == Running /\ stmt.op = op

\* The process after its imports and matplotlib.use('Agg') (lines 1-6), over
\* any input files and any output files left from before.
Init ==
    /\ files \in [Range(CsvPath) -> InputFiles]
    /\ out \in [Range(PngPath) -> {NoPng, OldPng}]
    /\ pc = 1
    /\ err = "None"
    /\ df = [i \in Instances |-> NoFrame]
    /\ figs = <<>>
    /\ active = 0
    /\ made = 0
    /\ written = {}
    /\ prev = [ok |-> FALSE, out |-> out]

ReadCsv ==
    /\ At("read_csv")
    /\ IF isfile(stmt.x)
       THEN df' = [df EXCEPT ![stmt.inst] = read_csv(files[stmt.x])] /\ Advance
       ELSE Raise("FileNotFoundError") /\ UNCHANGED df
    /\ UNCHANGED <<files, out, figs, active, made, written, prev>>

Figure ==
    /\ At("figure")
    /\ figs' = (next_num(figs) :> NewFigure) @@ figs
    /\ active' = next_num(figs)
    /\ made' = made + 1
    /\ Advance
    /\ UNCHANGED <<files, out, df, written, prev>>

Subplot ==
    /\ At("subplot")
    /\ figs' = [figs EXCEPT ![active] = subplot(@, stmt.k)]
    /\ Advance
    /\ UNCHANGED <<files, out, df, active, made, written, prev>>

Plot ==
    /\ At("plot")
    /\ IF has_column(df[stmt.inst], stmt.x) /\ has_column(df[stmt.inst], stmt.y)
       THEN LET xs == getitem(df[stmt.inst], stmt.x)
                ys == getitem(df[stmt.inst], stmt.y)
            IN  /\ figs' = [figs EXCEPT ![active] = set_gca(@, plot(gca(@), xs, ys, stmt.y))]
                /\ Advance
       ELSE Raise("KeyError") /\ UNCHANGED figs
    /\ UNCHANGED <<files, out, df, active, made, written, prev>>

XLabel ==
    /\ At("xlabel")
    /\ figs' = [figs EXCEPT ![active] = set_gca(@, [gca(@) EXCEPT !.xlabel = stmt.x])]
    /\ Advance
    /\ UNCHANGED <<files, out, df, active, made, written, prev>>

YLabel ==
    /\ At("ylabel")
    /\ figs' = [figs EXCEPT ![active] = set_gca(@, [gca(@) EXCEPT !.ylabel = stmt.x])]
    /\ Advance
    /\ UNCHANGED <<files, out, df, active, made, written, prev>>

Title ==
    /\ At("title")
    /\ figs' = [figs EXCEPT ![active] = set_gca(@, [gca(@) EXCEPT !.title = stmt.x])]
    /\ Advance
    /\ UNCHANGED <<files, out, df, active, made, written, prev>>

Legend ==
    /\ At("legend")
    /\ figs' = [figs EXCEPT ![active] = set_gca(@, legend(gca(@)))]
    /\ Advance
    /\ UNCHANGED <<files, out, df, active, made, written, prev>>

Grid ==
    /\ At("grid")
    /\ figs' = [figs EXCEPT ![active] = set_gca(@, [gca(@) EXCEPT !.grid = TRUE])]
    /\ Advance
    /\ UNCHANGED <<files, out, df, active, made, written, prev>>

TightLayout ==
    /\ At("tight_layout")
    /\ figs' = [figs EXCEPT ![active].tight = TRUE]
    /\ Advance
    /\ UNCHANGED <<files, out, df, active, made, written, prev>>

\* plt.savefig(path): writes the current figure, or raises OSError when the
\* destination cannot be opened for writing, which leaves the file as it was.
Savefig ==
    /\ At("savefig")
    /\ \/ /\ out' = write_png(out, stmt.x, figs[active])
          /\ written' = written \cup {stmt.x}
          /\ Advance
       \/ /\ Raise("OSError")
          /\ UNCHANGED <<out, written>>
    /\ UNCHANGED <<files, df, figs, active, made, prev>>

Close ==
    /\ At("close")
    /\ figs' = destroy(figs, active)
    /\ active' = IF DOMAIN figs' = {} THEN 0 ELSE Max(DOMAIN figs')
    /\ Advance
    /\ UNCHANGED <<files, out, df, made, written, prev>>

\* The script is run again: a new process over the same file system.
Restart ==
    /\ Terminated
    /\ prev' = [ok |-> ExitCode = 0, out |-> out]
    /\ pc' = 1
    /\ err' = "None"
    /\ df' = [i \in Instances |-> NoFrame]
    /\ figs' = <<>>
    /\ active' = 0
    /\ made' = 0
    /\ written' = {}
    /\ UNCHANGED <<files, out>>

Step ==
    \/ ReadCsv
    \/ Figure
    \/ Subplot
    \/ Plot
    \/ XLabel
    \/ YLabel
    \/ Title
    \/ Legend
    \/ Grid
    \/ TightLayout
    \/ Savefig
    \/ Close

Next == Step \/ Restart

Spec == Init /\ [][Next]_vars

\* The interpreter executes the next statement of a running script.
FairSpec == Spec /\ WF_vars(Step)

---------------------------------------------------------------------------
(* Vocabulary of the properties. *)

Bays29Png == PngPath["bays29"]

Brg180Png == PngPath["brg180"]

InputOf(inst) == files[CsvPath[inst]]

\* The input file of the instance does not exist.
Missing(inst) == ~InputOf(inst).exists

\* The input file exists and lacks one of the five columns.
Lacks(inst) ==
    InputOf(inst).exists /\ ~(Range(Columns) \subseteq Range(InputOf(inst).header))

\* The input file exists and has the five columns.
Valid(inst) ==
    InputOf(inst).exists /\ Range(Columns) \subseteq Range(InputOf(inst).header)

\* The cell of data row i under column c, read from the file itself.
Cell(f, i, c) == f.rows[i][Index(f.header, c)]

\* Series s (1..4) of a saved image: lines 1, 2 of the left axes, then of the right.
Series(png, s) == png.image[1].axes[(s + 1) \div 2].lines[((s - 1) % 2) + 1]

ExpectedLine(f, a) ==
    [label |-> Columns[a],
     xy    |-> [i \in 1..Len(f.rows) |-> <<Cell(f, i, Columns[1]), Cell(f, i, Columns[a])>>]]

ExpectedAxes(f, pos, a, b, ylabel, title) ==
    [pos    |-> pos,
     lines  |-> <<ExpectedLine(f, a), ExpectedLine(f, b)>>,
     xlabel |-> "Run",
     ylabel |-> ylabel,
     title  |-> title,
     legend |-> [on |-> TRUE, labels |-> <<Columns[a], Columns[b]>>],
     grid   |-> TRUE]

\* The image of an instance as a function of its own input file alone.
ExpectedPng(inst) ==
    LET f  == InputOf(inst)
        dt == IF inst = "bays29" THEN "Distances for bays29 Instance"
                                 ELSE "Distances for brg180 Instance"
        tt == IF inst = "bays29" THEN "Times for bays29 Instance"
                                 ELSE "Times for brg180 Instance"
    IN  [exists |-> TRUE,
         image  |-> << [figsize |-> <<14, 6>>,
                        tight   |-> TRUE,
                        axes    |-> << ExpectedAxes(f, 1, 2, 3, "Distance", dt),
                                       ExpectedAxes(f, 2, 4, 5, "Time (µs)", tt) >>] >>]

---------------------------------------------------------------------------
(* C1 *)

\* C1 as stated: whenever either input table lacks one of the five columns,
\* the run ends in an error and no PNG has been written when it aborts.
C1_NoPngWhenEitherLacksColumn ==
    (Terminated /\ \E inst \in Instances : Lacks(inst))
        => (err # "None" /\ written = {})

\* C1 amended: a run over a table that lacks a column ends in an error, never
\* writes the PNG of that instance, and writes no PNG at all when the table
\* is that of bays29.
C1_NoPngOfInstanceLackingColumn ==
    \A inst \in Instances :
        Lacks(inst) =>
            /\ PngPath[inst] \notin written
            /\ Terminated => err # "None"
            /\ inst = "bays29" => written = {}

\* The run aborted with KeyError while plotting bays29, whose table lacks a column.
C1_Witness ==
    /\ Terminated
    /\ err = "KeyError"
    /\ stmt.inst = "bays29"
    /\ Lacks("bays29")
    /\ made = 1
    /\ written = {}

---------------------------------------------------------------------------
(* C2 *)

\* C2: when an input file does not exist, the run aborts with
\* FileNotFoundError and neither PNG is written.
C2_NoPngWhenFileMissing ==
    (\E inst \in Instances : Missing(inst))
        => /\ written = {}
           /\ Terminated => err = "FileNotFoundError"

\* The run aborted on the missing bays29 file although the brg180 file is valid.
C2_Witness ==
    /\ Terminated
    /\ err = "FileNotFoundError"
    /\ stmt.inst = "bays29"
    /\ Missing("bays29")
    /\ Valid("brg180")

---------------------------------------------------------------------------
(* C3 *)

---------------------------------------------------------------------------
(* C4 *)

\* C4: each of the four series of a written chart has one point per input row,
\* point i being (Run, metric) of row i of the file.
C4_PointsInRowOrder ==
    \A inst \in Instances :
        PngPath[inst] \in written =>
            LET png == out[PngPath[inst]]
                f   == InputOf(inst)
            IN  /\ Len(png.image) = 1
                /\ Len(png.image[1].axes) = 2
                /\ \A a \in 1..2 : Len(png.image[1].axes[a].lines) = 2
                /\ \A s \in 1..4 :
                       /\ Series(png, s).label = Columns[s + 1]
                       /\ Len(Series(png, s).xy) = Len(f.rows)
                       /\ \A i \in 1..Len(f.rows) :
                              Series(png, s).xy[i] =
                                  <<Cell(f, i, "Run"), Cell(f, i, Columns[s + 1])>>

\* A chart was written for a table of at least two rows that are not
\* in ascending order of Run.
C4_Witness ==
    \E inst \in Instances :
        /\ PngPath[inst] \in written
        /\ Len(InputOf(inst).rows) >= 2
        /\ Cell(InputOf(inst), 1, "Run") > Cell(InputOf(inst), 2, "Run")

---------------------------------------------------------------------------
(* C5 *)

\* C5: after a complete run each output file holds the image determined by the
\* input file of its own instance, whatever was there before, and a complete
\* run that follows a complete run leaves the output files as they were.
C5_Idempotent ==
    (Terminated /\ ExitCode = 0) =>
        /\ \A inst \in Instances : out[PngPath[inst]] = ExpectedPng(inst)
        /\ prev.ok => out = prev.out

\* A second complete run over two different non-empty tables has ended.
C5_Witness ==
    /\ Terminated
    /\ ExitCode = 0
    /\ prev.ok
    /\ InputOf("bays29").rows # <<>>
    /\ InputOf("brg180").rows # <<>>
    /\ InputOf("bays29").rows # InputOf("brg180").rows

---------------------------------------------------------------------------
(* C6 *)

\* C6: a table with the five columns and no rows raises no error of its own,
\* and its PNG, once written, holds four series of zero points.
C6_EmptyTableRenders ==
    \A inst \in Instances :
        (Valid(inst) /\ InputOf(inst).rows = <<>>) =>
            /\ err \in {"KeyError", "FileNotFoundError"} => stmt.inst # inst
            /\ PngPath[inst] \in written =>
                   /\ Len(out[PngPath[inst]].image[1].axes) = 2
                   /\ \A s \in 1..4 : Series(out[PngPath[inst]], s).xy = <<>>

\* A run over an empty bays29 table ended with exit code 0.
C6_Witness ==
    /\ Terminated
    /\ ExitCode = 0
    /\ Valid("bays29")
    /\ InputOf("bays29").rows = <<>>
    /\ Bays29Png \in written

---------------------------------------------------------------------------
(* C7 *)

\* C7: in every terminal state of the run, successful or failed, no figure
\* created by the run is still open.
C7_NoFigureOpenAtExit == Terminated => DOMAIN figs = {}

---------------------------------------------------------------------------
(* C8 *)

\* C8: at most one figure is open at any time, a figure is created only when
\* none is open, the second figure is created only after bays29_benchmark.png
\* was written, and brg180_benchmark.png is never written before it.
C8_OneFigureAtATime ==
    /\ Cardinality(DOMAIN figs) <= 1
    /\ At("figure") => DOMAIN figs = {}
    /\ made <= 2
    /\ made = 2 => Bays29Png \in written
    /\ (DOMAIN figs # {} /\ Running) => stmt.inst = (IF made = 1 THEN "bays29" ELSE "brg180")
    /\ Brg180Png \in written => Bays29Png \in written

\* The brg180 figure is open, after the bays29 figure was saved and closed.
C8_Witness ==
    /\ made = 2
    /\ DOMAIN figs = {1}
    /\ Bays29Png \in written
    /\ Brg180Png \notin written

---------------------------------------------------------------------------
(* C9 *)

\* C9: when loading or rendering bays29 fails, the run has stopped there: no
\* second figure was created and brg180_benchmark.png was not written.
C9_FirstFailureStopsRun ==
    /\ (err # "None" /\ stmt.inst = "bays29") =>
           (made <= 1 /\ Brg180Png \notin written)
    /\ ~Valid("bays29") => (made <= 1 /\ Brg180Png \notin written)
    /\ (made = 2 \/ Brg180Png \in written) => Bays29Png \in written

\* bays29_benchmark.png could not be written, with a valid brg180 input.
C9_Witness ==
    /\ Terminated
    /\ err = "OSError"
    /\ stmt.inst = "bays29"
    /\ Valid("brg180")
    /\ made = 1

---------------------------------------------------------------------------
(* C10 *)

\* C10: both tables are loaded before any figure is created or output written;
\* a missing brg180 file leaves bays29_benchmark.png unwritten, while a KeyError
\* on the brg180 table comes after bays29_benchmark.png was written.
C10_LoadBeforeRender ==
    /\ (At("figure") \/ made > 0 \/ written # {}) =>
           \A inst \in Instances : df[inst].loaded
    /\ Missing("brg180") => Bays29Png \notin written
    /\ (Terminated /\ err = "KeyError" /\ Valid("bays29") /\ Lacks("brg180")) =>
           Bays29Png \in written

\* The run aborted with KeyError on the brg180 table after writing the bays29 PNG.
C10_Witness ==
    /\ Terminated
    /\ err = "KeyError"
    /\ stmt.inst = "brg180"
    /\ Lacks("brg180")
    /\ Bays29Png \in written

====
